---- MODULE Spec2Model ----
(***************************************************************************)
(* A model of morning-digest (src/main.py): the Newspaper / Collection /   *)
(* Article pipeline that reads feeds, filters and deduplicates entries,    *)
(* optionally fetches the full article text, sorts, renders and exports.   *)
(*                                                                         *)
(* Python values are represented as follows.                               *)
(*   None / absent key      the empty sequence <<>>                        *)
(*   a present value v      the one-element sequence <<v>>                 *)
(*   datetime               [kind |-> "datetime", t |-> seconds]           *)
(*   date                   [kind |-> "date", t |-> seconds at midnight]   *)
(*   timedelta              a number of seconds                            *)
(* The byline (author, formatted date) and the title block of a rendered   *)
(* article are not modelled: a rendered fragment is the article itself.    *)
(* An article carries one field the code does not have, seq: its rank in   *)
(* the order of ingestion, which the ordering properties refer to.         *)
(***************************************************************************)
EXTENDS Integers, Sequences, FiniteSets, TLC

VARIABLES
    pc,           \* position of the main thread
    config,       \* the configuration file: [general_last, feeds]
    progressbars, \* the module global `progressbars`
    collections,  \* Newspaper._collections, a sequence of Collection records
    ci,           \* index of the feed / collection a loop is at
    ui,           \* index into collection.urls inside download_feed
    ai,           \* index into collection._articles inside download_articles
    now,          \* the value datetime.now() returned last
    nleft,        \* entries of d.entries the loop of _download_url has not seen
    entry,        \* the entry the loop of _download_url handled last
    feedReads,    \* number of feedparser.parse calls made (network)
    thread,       \* the export thread: "none", "alive", "finished", or
                  \* "died_render" / "died_convert" after an exception in it
    polls,        \* bar.update() calls made by the wrapper's polling loop
    artifact,     \* the output file: <<>> when not written, else <<document>>
    exitStatus,   \* <<>> while running, <<code>> once the process has ended
    error,        \* <<>>, or <<name>> of the exception that left the main thread
    rendered,     \* what Collection.render_html returned last (SpecCollection)
    calls         \* download_feed calls made on the collection (SpecCollection)

vars == <<pc, config, progressbars, collections, ci, ui, ai, now, nleft, entry,
          feedReads, thread, polls, artifact, exitStatus, error, rendered, calls>>

---------------------------------------------------------------------------
(* Bounds of the model *)

MaxFeeds == 2      \* feed sections in the configuration file
MaxSources == 2    \* source URLs of the collection of SpecCollection
MaxEntries == 2    \* entries one parsed feed holds
MaxCalls == 2      \* download_feed calls made under SpecCollection
MaxPolls == 1      \* polling rounds of the progress wrapper that are counted
MaxDrift == 0      \* seconds the clock may advance over a run

(* Program constants *)

Day == 86400       \* seconds in timedelta(days=1)
WeekDays == 7
MonthDays == 30
Now0 == 40 * Day + 3600   \* the clock at program start: day 40, 01:00

None == <<>>
Some(v) == <<v>>
IsNone(x) == x = <<>>
Val(x) == x[1]

URLs == {"u1", "u2"}
SourceNames == <<"s1", "s2", "s3">>

Min(a, b) == IF a < b THEN a ELSE b

---------------------------------------------------------------------------
(* Collection.set_allowed_timedelta *)

\* int(delta) for the strings the model draws; <<>> stands for ValueError
IntOf(s) ==
    CASE s = "0"  -> Some(0)
      [] s = "1"  -> Some(1)
      [] s = "2"  -> Some(2)
      [] s = "-1" -> Some(-1)
      [] OTHER    -> None

\* Collection._deltas
Deltas(s) ==
    CASE s = "day"   -> Some(Day)
      [] s = "week"  -> Some(WeekDays * Day)
      [] s = "month" -> Some(MonthDays * Day)
      [] OTHER       -> None

\* the timedelta a 'last' string denotes; <<>> when the method calls sys.exit(1)
ParseDelta(s) ==
    IF ~IsNone(Deltas(s)) THEN Deltas(s)
    ELSE IF ~IsNone(IntOf(s)) THEN Some(Val(IntOf(s)) * Day)
    ELSE None

---------------------------------------------------------------------------
(* Article *)

DateTime(t) == [kind |-> "datetime", t |-> t]
\* date.today(): a date, not a datetime
DateToday(t) == [kind |-> "date", t |-> (t \div Day) * Day]

\* Article.__init__(entry.link, **attrs) with attrs as _download_url builds them
NewArticle(e, t, seq) ==
    [url       |-> Val(e.link),
     title     |-> IF IsNone(e.title) THEN "" ELSE Val(e.title),
     date      |-> IF ~IsNone(e.published) THEN DateTime(Val(e.published))
                   ELSE DateToday(t),
     full_text |-> IF IsNone(e.description) THEN <<>> ELSE Val(e.description),
     seq       |-> seq]

\* truth value of self._timedelta: None and timedelta(0) are both false
DeltaTruthy(d) == ~IsNone(d) /\ Val(d) # 0

\* `now - article.date` raises TypeError when article.date is a date
SubRaises(c, a) == DeltaTruthy(c.timedelta) /\ a.date.kind = "date"

\* `self._timedelta and now - article.date > self._timedelta`
TooOld(c, a, t) == DeltaTruthy(c.timedelta) /\ t - a.date.t > Val(c.timedelta)

\* variant: the membership test is missing
IsNewUrlAlways(c, a) == TRUE

\* `article.url not in self._article_urls`
IsNewUrl(c, a) == a.url \notin c.article_urls

---------------------------------------------------------------------------
(* Collection *)

\* Collection.__init__
NewCollection(id, urls) ==
    [id             |-> id,
     urls           |-> urls,
     articles       |-> <<>>,
     timedelta      |-> None,
     fetch_original |-> None,      \* the constructor's False
     do_readability |-> TRUE,
     add_title      |-> TRUE,
     article_urls   |-> {},
     fetched        |-> <<>>]      \* log of the requests get_full_text made

\* variant: the ValueError is reported but the process goes on
DeltaExitsNever(s) == FALSE

\* set_allowed_timedelta(delta) ends the process when delta does not parse
DeltaExits(s) == IsNone(ParseDelta(s))

SetAllowedTimedelta(c, s) == [c EXCEPT !.timedelta = ParseDelta(s)]

\* truth value of a configparser value: absent and '' are false
Truthy(x) == ~IsNone(x) /\ Val(x) # ""

\* variant: the URL is recorded before the recency test
AddEntryRecordFirst(c, e, t) ==
    LET a == NewArticle(e, t, Len(c.articles) + 1)
        r == [c EXCEPT !.article_urls = @ \cup {a.url}]
    IN  IF ~IsNewUrl(c, a) THEN c
        ELSE IF TooOld(c, a, t) THEN r
        ELSE [r EXCEPT !.articles = Append(@, a)]

\* the body of the loop over d.entries, for an entry the loop does not skip
AddEntry(c, e, t) ==
    LET a == NewArticle(e, t, Len(c.articles) + 1)
    IN  IF TooOld(c, a, t) THEN c
        ELSE IF IsNewUrl(c, a)
             THEN [c EXCEPT !.article_urls = @ \cup {a.url},
                            !.articles = Append(@, a)]
             ELSE c

\* `'link' not in entry or 'title' not in entry`
Skipped(e) == IsNone(e.link) \/ IsNone(e.title)

\* variant: an equal key goes before the keys it equals (an unstable sort)
InsertAtStrict(r, a) == Cardinality({i \in 1..Len(r) : r[i].date.t > a.date.t})

\* position of `a` in a list sorted descending that keeps equal keys in order
InsertAt(r, a) == Cardinality({i \in 1..Len(r) : r[i].date.t >= a.date.t})

RECURSIVE SortInto(_, _)
SortInto(r, s) ==
    IF s = <<>> THEN r
    ELSE LET a == Head(s)
             k == InsertAt(r, a)
         IN  SortInto(SubSeq(r, 1, k) \o <<a>> \o SubSeq(r, k + 1, Len(r)),
                      Tail(s))

\* self._articles.sort(key=lambda x: x.date, reverse=True): a stable sort
Sorted(arts) == SortInto(<<>>, arts)

\* comparing a datetime with a date raises TypeError
SortRaises(arts) ==
    \E i, j \in 1..Len(arts) : arts[i].date.kind # arts[j].date.kind

\* getdatestr reads self.date.hour, which a date does not have
DateStrRaises(arts) == \E i \in 1..Len(arts) : arts[i].date.kind = "date"

\* Collection.render_html: <<>> is the exception case, else <<fragments>>;
\* the empty string is the empty sequence of fragments
RenderCollection(c) ==
    IF SortRaises(c.articles) \/ DateStrRaises(c.articles) THEN None
    ELSE Some(Sorted(c.articles))

RenderError(c) == IF SortRaises(c.articles) THEN "TypeError" ELSE "AttributeError"

---------------------------------------------------------------------------
(* Article.get_full_text *)

FetchOutcomes == {"ok", "HTTPError", "UnicodeDecodeError", "URLError"}

\* the exceptions get_full_text catches
Caught == {"HTTPError", "UnicodeDecodeError"}

\* the article after get_full_text returned normally
GetFullText(a, readability, outcome) ==
    IF outcome = "ok"
    THEN [a EXCEPT !.full_text = IF readability THEN <<"readable", a.url>>
                                 ELSE <<"html", a.url>>]
    ELSE a

FetchPropagates(outcome) == outcome # "ok" /\ outcome \notin Caught

---------------------------------------------------------------------------
(* Newspaper.render_html *)

\* variant: an empty render is not told apart
IsEmptyRenderNever(html) == FALSE

\* `if html == '': continue`
IsEmptyRender(html) == html = <<>>

RECURSIVE Sections(_)
Sections(cs) ==
    IF cs = <<>> THEN <<>>
    ELSE LET html == Val(RenderCollection(Head(cs)))
         IN  IF IsEmptyRender(html) THEN Sections(Tail(cs))
             ELSE <<[id |-> Head(cs).id, name |-> Head(cs).id, articles |-> html]>>
                  \o Sections(Tail(cs))

\* index of the first collection whose render raises, 0 when none does
FirstRaising(cs) ==
    IF \E i \in 1..Len(cs) : IsNone(RenderCollection(cs[i]))
    THEN CHOOSE i \in 1..Len(cs) :
            /\ IsNone(RenderCollection(cs[i]))
            /\ \A j \in 1..(i - 1) : ~IsNone(RenderCollection(cs[j]))
    ELSE 0

\* the collections after render_html sorted those it reached
SortedUpTo(cs, n) ==
    [i \in 1..Len(cs) |->
        IF i <= n THEN [cs[i] EXCEPT !.articles = Sorted(@)] ELSE cs[i]]

---------------------------------------------------------------------------
(* Inputs: what the configuration file and the feeds may hold *)

\* the first n source names, as feed['url'].split(',') gives them
UrlList(n) == [i \in 1..n |-> SourceNames[i]]

LastValues == {"day", "bogus"}
GeneralLastValues == {"week", "bogus"}
FetchOriginalValues == {"true", "false"}

FeedSections ==
    [url            : {UrlList(1)},
     last           : {None} \cup {Some(v) : v \in LastValues},
     fetch_original : {None} \cup {Some(v) : v \in FetchOriginalValues}]

Configs ==
    [general_last : {None} \cup {Some(v) : v \in GeneralLastValues},
     feeds        : UNION {[1..n -> FeedSections] : n \in 1..MaxFeeds}]

\* the publish times worth telling apart for a collection read at time t
Ages(c) ==
    {0} \cup (IF IsNone(c.timedelta) THEN {Day + 1}
              ELSE {Val(c.timedelta) - 1, Val(c.timedelta), Val(c.timedelta) + 1})

\* the entries a feed read from source src at time t may hold: every entry
\* with a link and a title, and the entries without one of them, which the
\* loop skips before it reads any other field
FeedEntries(c, src, t) ==
    [link        : {Some(u) : u \in URLs},
     title       : {Some(src)},
     published   : {None} \cup {Some(t - a) : a \in Ages(c)},
     description : {Some(<<"summary", src>>)}]
    \cup
    {[link |-> l, title |-> ti, published |-> Some(t),
      description |-> Some(<<"summary", src>>)] :
        <<l, ti>> \in {<<None, Some(src)>>, <<Some("u1"), None>>, <<None, None>>}}

\* the links the feeds of a whole run hold; the runs of one Collection
\* (SpecCollection) draw from URLs
RunURLs == {"u1"}

\* the entries of the feeds of a whole run: every one has a link and a title
RunEntries(c, src, t) ==
    [link        : {Some(u) : u \in RunURLs},
     title       : {Some(src)},
     published   : {None, Some(t), Some(t - 2 * Day)},
     description : {Some(<<"summary", src>>)}]

---------------------------------------------------------------------------
(* main(), up to newspaper.download_all() *)

InitCommon ==
    /\ ci = 1 /\ ui = 1 /\ ai = 1
    /\ now = Now0
    /\ nleft = 0
    /\ entry = None
    /\ feedReads = 0
    /\ thread = "none"
    /\ polls = 0
    /\ artifact = None
    /\ exitStatus = None
    /\ error = None
    /\ rendered = None
    /\ calls = 0

Init ==
    /\ pc = "config"
    /\ config \in Configs
    /\ progressbars \in BOOLEAN     \* args.progressbars, assigned at line 339
    /\ collections = <<>>
    /\ InitCommon

\* the string set_allowed_timedelta is called with for a feed section, if any
EffectiveLast(cfg, feed) ==
    IF Truthy(feed.last) THEN feed.last
    ELSE IF ~IsNone(cfg.general_last) THEN cfg.general_last
    ELSE None

\* the Collection main() builds from a feed section whose window parses
CollectionOf(cfg, feed, id) ==
    LET c0 == NewCollection(id, feed.url)
        c1 == IF Truthy(feed.fetch_original)
              THEN [c0 EXCEPT !.fetch_original = feed.fetch_original] ELSE c0
        l  == EffectiveLast(cfg, feed)
    IN  IF IsNone(l) THEN c1 ELSE SetAllowedTimedelta(c1, Val(l))

\* one round of `for feed in feeds`
ConfigFeed ==
    /\ pc = "config"
    /\ ci <= Len(config.feeds)
    /\ LET feed == config.feeds[ci]
           l    == EffectiveLast(config, feed)
       IN  IF ~IsNone(l) /\ DeltaExits(Val(l))
           THEN /\ pc' = "aborted"
                /\ exitStatus' = Some(1)
                /\ UNCHANGED <<collections, ci>>
           ELSE /\ collections' = Append(collections, CollectionOf(config, feed, ci))
                /\ ci' = ci + 1
                /\ UNCHANGED <<pc, exitStatus>>
    /\ UNCHANGED <<config, progressbars, ui, ai, now, nleft, entry, feedReads,
                   thread, polls, artifact, error, rendered, calls>>

\* newspaper.download_all() is called
DownloadAll ==
    /\ pc = "config"
    /\ ci > Len(config.feeds)
    /\ pc' = "download_all"
    /\ ci' = 1
    /\ UNCHANGED <<config, progressbars, collections, ui, ai, now, nleft, entry,
                   feedReads, thread, polls, artifact, exitStatus, error,
                   rendered, calls>>

\* `for collection in self._collections`: collection.download_feed() is called
BeginCollection ==
    /\ pc = "download_all"
    /\ ci <= Len(collections)
    /\ pc' = "download_feed"
    /\ ui' = 1
    /\ UNCHANGED <<config, progressbars, collections, ci, ai, now, nleft, entry,
                   feedReads, thread, polls, artifact, exitStatus, error,
                   rendered, calls>>

---------------------------------------------------------------------------
(* Collection.download_feed and Collection._download_url *)

\* _download_url up to its loop: feedparser.parse(url) gives n entries and
\* datetime.now() gives t
DownloadUrl(t, n) ==
    /\ pc = "download_feed"
    /\ ui <= Len(collections[ci].urls)
    /\ feedReads' = feedReads + 1
    /\ now' = t
    /\ nleft' = n
    /\ entry' = None
    /\ pc' = "entries"
    /\ UNCHANGED <<config, progressbars, collections, ci, ui, ai, thread, polls,
                   artifact, exitStatus, error, rendered, calls>>

\* one round of `for entry in d.entries`
IngestEntry(e) ==
    /\ pc = "entries"
    /\ nleft > 0
    /\ entry' = Some(e)
    /\ nleft' = nleft - 1
    /\ LET c == collections[ci]
       IN  IF Skipped(e)
           THEN UNCHANGED <<collections, pc, exitStatus, error>>
           ELSE IF SubRaises(c, NewArticle(e, now, 0))
           THEN /\ pc' = "crashed"
                /\ exitStatus' = Some(1)
                /\ error' = Some("TypeError")
                /\ UNCHANGED collections
           ELSE /\ collections' = [collections EXCEPT ![ci] = AddEntry(c, e, now)]
                /\ UNCHANGED <<pc, exitStatus, error>>
    /\ UNCHANGED <<config, progressbars, ci, ui, ai, now, feedReads, thread,
                   polls, artifact, rendered, calls>>

\* the loop over d.entries is over: _download_url returns
EndUrl ==
    /\ pc = "entries"
    /\ nleft = 0
    /\ ui' = ui + 1
    /\ entry' = None
    /\ pc' = "download_feed"
    /\ UNCHANGED <<config, progressbars, collections, ci, ai, now, nleft,
                   feedReads, thread, polls, artifact, exitStatus, error,
                   rendered, calls>>

\* the loop over self.urls is over: download_feed returns
EndFeed ==
    /\ pc = "download_feed"
    /\ ui > Len(collections[ci].urls)
    /\ pc' = "feed_done"
    /\ UNCHANGED <<config, progressbars, collections, ci, ui, ai, now, nleft,
                   entry, feedReads, thread, polls, artifact, exitStatus, error,
                   rendered, calls>>

---------------------------------------------------------------------------
(* Newspaper.download_all after download_feed, Collection.download_articles *)

\* `if collection.fetch_original: collection.download_articles()`
AfterFeed ==
    /\ pc = "feed_done"
    /\ IF Truthy(collections[ci].fetch_original)
       THEN pc' = "download_articles" /\ ai' = 1 /\ UNCHANGED ci
       ELSE pc' = "download_all" /\ ci' = ci + 1 /\ UNCHANGED ai
    /\ UNCHANGED <<config, progressbars, collections, ui, now, nleft, entry,
                   feedReads, thread, polls, artifact, exitStatus, error,
                   rendered, calls>>

\* one round of `for i, a in enumerate(articles)`: a.get_full_text(...)
FetchArticle(outcome) ==
    /\ pc = "download_articles"
    /\ ai <= Len(collections[ci].articles)
    /\ LET c == collections[ci]
           a == c.articles[ai]
           logged == [c EXCEPT !.fetched = Append(@, a.url)]
       IN  IF FetchPropagates(outcome)
           THEN /\ collections' = [collections EXCEPT ![ci] = logged]
                /\ pc' = "crashed"
                /\ exitStatus' = Some(1)
                /\ error' = Some(outcome)
                /\ UNCHANGED ai
           ELSE /\ collections' = [collections EXCEPT ![ci] =
                       [logged EXCEPT !.articles[ai] =
                           GetFullText(a, c.do_readability, outcome)]]
                /\ ai' = ai + 1
                /\ UNCHANGED <<pc, exitStatus, error>>
    /\ UNCHANGED <<config, progressbars, ci, ui, now, nleft, entry, feedReads,
                   thread, polls, artifact, rendered, calls>>

\* download_articles returns (at once when there are no articles)
EndArticles ==
    /\ pc = "download_articles"
    /\ ai > Len(collections[ci].articles)
    /\ pc' = "download_all"
    /\ ci' = ci + 1
    /\ UNCHANGED <<config, progressbars, collections, ui, ai, now, nleft, entry,
                   feedReads, thread, polls, artifact, exitStatus, error,
                   rendered, calls>>

---------------------------------------------------------------------------
(* Newspaper.export under the rotatingbar wrapper *)

Formats == {"pdf", "html_raw"}
ConvertOutcomes == {"ok", "raise"}

\* export was decorated while the module global progressbars was True, so
\* newspaper.export is the wrapper whatever args.progressbars is
ExportIsWrapped(pb) == TRUE

\* the wrapper starts the thread that runs export
ExportCall ==
    /\ pc = "download_all"
    /\ ci > Len(collections)
    /\ ExportIsWrapped(progressbars)
    /\ thread' = "alive"
    /\ pc' = "polling"
    /\ UNCHANGED <<config, progressbars, collections, ci, ui, ai, now, nleft,
                   entry, feedReads, polls, artifact, exitStatus, error,
                   rendered, calls>>

\* the thread runs the body of export to its end
ThreadExport(format, outcome) ==
    /\ thread = "alive"
    /\ LET k == FirstRaising(collections)
       IN  IF k # 0
           THEN /\ thread' = "died_render"
                /\ collections' = SortedUpTo(collections, k - 1)
                   \* open(filename, 'w') has already emptied the file
                /\ IF format = "html_raw"
                   THEN artifact' = Some([format |-> format, complete |-> FALSE,
                                          body |-> <<>>])
                   ELSE UNCHANGED artifact
           ELSE /\ collections' = SortedUpTo(collections, Len(collections))
                /\ IF format = "html_raw" \/ outcome = "ok"
                   THEN /\ artifact' = Some([format |-> format, complete |-> TRUE,
                                             body |-> Sections(collections)])
                        /\ thread' = "finished"
                   ELSE /\ thread' = "died_convert"
                        /\ UNCHANGED artifact
    /\ UNCHANGED <<pc, config, progressbars, ci, ui, ai, now, nleft, entry,
                   feedReads, polls, exitStatus, error, rendered, calls>>

\* `while t.is_alive(): bar.update(); time.sleep(0.5)`
Poll ==
    /\ pc = "polling"
    /\ thread = "alive"
    /\ polls < MaxPolls
    /\ polls' = polls + 1
    /\ UNCHANGED <<pc, config, progressbars, collections, ci, ui, ai, now, nleft,
                   entry, feedReads, thread, artifact, exitStatus, error,
                   rendered, calls>>

\* the thread is no longer alive: t.join(), bar.finish(), main() returns
Join ==
    /\ pc = "polling"
    /\ thread # "alive"
    /\ pc' = "done"
    /\ exitStatus' = Some(0)
    /\ UNCHANGED <<config, progressbars, collections, ci, ui, ai, now, nleft,
                   entry, feedReads, thread, polls, artifact, error, rendered,
                   calls>>

---------------------------------------------------------------------------
(* The whole run *)

\* _download_url as the run calls it
RunDownloadUrl ==
    /\ pc = "download_feed"
    /\ \E n \in 0..MaxEntries : DownloadUrl(now, n)

RunIngestEntry ==
    /\ pc = "entries"
    /\ \E e \in RunEntries(collections[ci], collections[ci].urls[ui], now) :
          IngestEntry(e)

Next ==
    \/ ConfigFeed
    \/ DownloadAll
    \/ BeginCollection
    \/ RunDownloadUrl
    \/ RunIngestEntry
    \/ EndUrl
    \/ EndFeed
    \/ AfterFeed
    \/ \E o \in FetchOutcomes : FetchArticle(o)
    \/ EndArticles
    \/ ExportCall
    \/ \E f \in Formats, o \in ConvertOutcomes : ThreadExport(f, o)
    \/ Poll
    \/ Join

Spec == Init /\ [][Next]_vars

---------------------------------------------------------------------------
(* One Collection driven through its methods: set_allowed_timedelta once,   *)
(* then download_feed and render_html in any order.                         *)

WindowValues == {"day", "0", "-1"}

InitCollection ==
    /\ pc = "idle"
    /\ config = [general_last |-> None, feeds |-> <<>>]
    /\ progressbars = TRUE
    /\ \E n \in 1..MaxSources, w \in {None} \cup {Some(v) : v \in WindowValues} :
          collections =
              <<IF IsNone(w) THEN NewCollection(1, UrlList(n))
                ELSE SetAllowedTimedelta(NewCollection(1, UrlList(n)), Val(w))>>
    /\ InitCommon

\* collection.download_feed() is called
CallDownloadFeed ==
    /\ pc = "idle"
    /\ calls < MaxCalls
    /\ calls' = calls + 1
    /\ pc' = "download_feed"
    /\ ui' = 1
    /\ UNCHANGED <<config, progressbars, collections, ci, ai, now, nleft, entry,
                   feedReads, thread, polls, artifact, exitStatus, error,
                   rendered>>

\* _download_url with a clock that may have advanced
UnitDownloadUrl ==
    /\ pc = "download_feed"
    /\ \E n \in 0..MaxEntries, t \in now..Min(now + 1, Now0 + MaxDrift) :
          DownloadUrl(t, n)

UnitIngestEntry ==
    /\ pc = "entries"
    /\ \E e \in FeedEntries(collections[ci], collections[ci].urls[ui], now) :
          IngestEntry(e)

\* download_feed returned to the caller
ReturnFeed ==
    /\ pc = "feed_done"
    /\ pc' = "idle"
    /\ UNCHANGED <<config, progressbars, collections, ci, ui, ai, now, nleft,
                   entry, feedReads, thread, polls, artifact, exitStatus, error,
                   rendered, calls>>

\* collection.render_html() is called and returns or raises
CallRender ==
    /\ pc = "idle"
    /\ LET c == collections[ci]
           r == RenderCollection(c)
       IN  IF IsNone(r)
           THEN /\ pc' = "crashed"
                /\ exitStatus' = Some(1)
                /\ error' = Some(RenderError(c))
                /\ UNCHANGED <<collections, rendered>>
           ELSE /\ collections' = [collections EXCEPT ![ci].articles = Sorted(@)]
                /\ rendered' = r
                /\ UNCHANGED <<pc, exitStatus, error>>
    /\ UNCHANGED <<config, progressbars, ci, ui, ai, now, nleft, entry, feedReads,
                   thread, polls, artifact, calls>>

NextCollection ==
    \/ CallDownloadFeed
    \/ UnitDownloadUrl
    \/ UnitIngestEntry
    \/ EndUrl
    \/ EndFeed
    \/ ReturnFeed
    \/ CallRender

SpecCollection == InitCollection /\ [][NextCollection]_vars

---------------------------------------------------------------------------
(* Properties of one Collection, checked under SpecCollection *)

UrlsOf(arts) == {arts[i].url : i \in DOMAIN arts}

\* the step is one round of the loop over d.entries, for entry Val(entry')
IngestedStep == pc = "entries" /\ nleft' = nleft - 1

\* the step appended one article to the collection the loop works on
Appended == collections'[ci].articles =
                Append(collections[ci].articles,
                       collections'[ci].articles[Len(collections'[ci].articles)])
            /\ Len(collections'[ci].articles) = Len(collections[ci].articles) + 1

C1_NoDuplicateUrl ==
    \A k \in DOMAIN collections :
        \A i, j \in DOMAIN collections[k].articles :
            i # j => collections[k].articles[i].url # collections[k].articles[j].url

C1_DroppedNotMerged ==
    [][(/\ IngestedStep
        /\ ~Skipped(Val(entry'))
        /\ Val(Val(entry').link) \in UrlsOf(collections[ci].articles))
       => collections'[ci].articles = collections[ci].articles]_vars

\* C1: within one Collection no two articles of the article list ever have
\* the same url, and an entry whose url an article already has leaves the
\* article list as it was (the entry is dropped, the article not changed).
C1_DedupAtIngestion == []C1_NoDuplicateUrl /\ C1_DroppedNotMerged

\* an entry of another source, with another title and no window to reject it,
\* has just been handled and the article of its url is the earlier one
C1_Witness ==
    /\ pc = "entries"
    /\ ~IsNone(entry)
    /\ ~Skipped(Val(entry))
    /\ IsNone(collections[ci].timedelta)
    /\ ~IsNone(Val(entry).published)
    /\ Len(collections[ci].articles) = 1
    /\ collections[ci].articles[1].url = Val(Val(entry).link)
    /\ collections[ci].articles[1].title # Val(Val(entry).title)

\* C2: an entry with link, title and publish time is rejected for its age
\* exactly when a window W is configured and now - publishedAt > W; with no
\* window every such entry whose url is new is admitted.
C2_RecencyFilter ==
    [][(/\ IngestedStep
        /\ ~Skipped(Val(entry'))
        /\ ~IsNone(Val(entry').published))
       => LET c   == collections[ci]
              age == now - Val(Val(entry').published)
              new == Val(Val(entry').link) \notin UrlsOf(c.articles)
          IN  IF IsNone(c.timedelta) THEN new => Appended
              ELSE /\ age > Val(c.timedelta) => UNCHANGED collections
                   /\ (~(age > Val(c.timedelta)) /\ new) => Appended]_vars

\* C7: an entry with link and title but no publish time is ingested without
\* error, with no window or with a window of zero or more days, and is
\* retained: when its url is new it becomes an article of the collection.
C7_UndatedEntryIngested ==
    [][(/\ IngestedStep
        /\ ~Skipped(Val(entry'))
        /\ IsNone(Val(entry').published)
        /\ \/ IsNone(collections[ci].timedelta)
           \/ Val(collections[ci].timedelta) >= 0)
       => /\ pc' # "crashed"
          /\ Val(Val(entry').link) \notin UrlsOf(collections[ci].articles)
             => Appended]_vars

C10_SetMatches ==
    \A k \in DOMAIN collections :
        collections[k].article_urls = UrlsOf(collections[k].articles)

C10_InWindowAdmitted ==
    [][(/\ IngestedStep
        /\ ~Skipped(Val(entry'))
        /\ ~IsNone(Val(entry').published)
        /\ Val(Val(entry').link) \notin collections[ci].article_urls
        /\ \/ IsNone(collections[ci].timedelta)
           \/ now - Val(Val(entry').published) <= Val(collections[ci].timedelta))
       => /\ Appended
          /\ Val(Val(entry').link) \in collections'[ci].article_urls]_vars

\* C10: the dedup set is always exactly the set of urls of the article list
\* (an entry rejected as too old does not leave its url in the set), and an
\* entry inside the window whose url is not in the set is admitted.
C10_DedupSetIsArticleUrls == []C10_SetMatches /\ C10_InWindowAdmitted

\* an entry has just been rejected as too old and its url is not in the set
C10_Witness ==
    /\ pc = "entries"
    /\ ~IsNone(entry)
    /\ ~Skipped(Val(entry))
    /\ ~IsNone(Val(entry).published)
    /\ ~IsNone(collections[ci].timedelta)
    /\ now - Val(Val(entry).published) > Val(collections[ci].timedelta)
    /\ Val(collections[ci].timedelta) > 0
    /\ Val(Val(entry).link) \notin collections[ci].article_urls
    /\ collections[ci].articles # <<>>

\* C4: what render_html returns lists every article of the collection, in
\* non-increasing order of date, and articles of equal date in the order of
\* their ingestion.
C4_RenderOrder ==
    ~IsNone(rendered) =>
        LET r == Val(rendered)
        IN  /\ {r[i].seq : i \in DOMAIN r} = 1..Len(r)
            /\ \A i, j \in DOMAIN r :
                  i < j => /\ r[i].date.t >= r[j].date.t
                           /\ r[i].date.t = r[j].date.t => r[i].seq < r[j].seq

\* a render of two articles with the same date
C4_Witness ==
    /\ ~IsNone(rendered)
    /\ Len(Val(rendered)) = 2
    /\ Val(rendered)[1].date.t = Val(rendered)[2].date.t

---------------------------------------------------------------------------
(* Properties of the whole run, checked under Spec *)

\* C3: a failed article fetch, whatever the failure, does not end the run.
C3_FetchFailureIsolated ==
    \A o \in FetchOutcomes \ {"ok"} : error # Some(o)

\* C5: the composed document holds one section for each collection that has
\* an article, in the order of the collections, and none for a collection
\* without articles.
C5_EmptyCollectionOmitted ==
    (~IsNone(artifact) /\ Val(artifact).complete) =>
        LET doc == Val(artifact).body
            nonEmpty == {i \in DOMAIN collections : collections[i].articles # <<>>}
        IN  /\ Len(doc) = Cardinality(nonEmpty)
            /\ \A k \in DOMAIN doc :
                  /\ doc[k].id \in nonEmpty
                  /\ doc[k].articles = collections[doc[k].id].articles
                  /\ doc[k].articles # <<>>
            /\ \A k, l \in DOMAIN doc : k < l => doc[k].id < doc[l].id

\* a document of one section, of the second of two collections
C5_Witness ==
    /\ ~IsNone(artifact)
    /\ Val(artifact).complete
    /\ Len(collections) = 2
    /\ Len(Val(artifact).body) = 1
    /\ Val(artifact).body[1].id = 2

\* C6: when the converter raises, the run ends with a failure status, with
\* the progress bars enabled or disabled.
C6_ConverterFailureNotMasked ==
    (thread = "died_convert" /\ pc = "done") => exitStatus # Some(0)

\* C8: a collection whose feed section has fetch-original absent or false
\* makes no article request.
C8_FetchOnlyIfFlagSet ==
    \A i \in DOMAIN collections :
        config.feeds[i].fetch_original \in {None, Some("false")}
            => collections[i].fetched = <<>>

\* the strings set_allowed_timedelta accepts, among those the model draws
C9_Parsable(s) == s \in {"day", "week", "month", "0", "1", "2", "-1"}

\* C9: when a feed section's window, its own or the general one applied to
\* it, does not parse, the run never gets past the configuration loop: no
\* feed is read, no article requested, no output written.
C9_ConfigErrorAbortsBeforeNetwork ==
    (\E i \in DOMAIN config.feeds :
        LET l == EffectiveLast(config, config.feeds[i])
        IN  ~IsNone(l) /\ ~C9_Parsable(Val(l)))
    => /\ pc \in {"config", "aborted"}
       /\ feedReads = 0
       /\ \A k \in DOMAIN collections : collections[k].fetched = <<>>
       /\ thread = "none"
       /\ IsNone(artifact)

\* the run was ended at the second feed section, by the general window
C9_Witness ==
    /\ pc = "aborted"
    /\ exitStatus = Some(1)
    /\ ci = 2
    /\ IsNone(config.feeds[2].last)
    /\ Truthy(collections[1].fetch_original)
    /\ feedReads = 0

====
